---------------------------- MODULE Spec2Model ----------------------------
(***************************************************************************)
(* State-machine model of simplefin-bridge-exporter: the credential        *)
(* resolution of parseConfig (Kubernetes secret, volatile file, explicit   *)
(* access URL, setup-token exchange), the account-mapping policy, and the  *)
(* poll loop that exports account snapshots into three gauge families.     *)
(*                                                                         *)
(* Strings are TLA+ strings; characters are read with SubSeq.  The secret  *)
(* in the cluster, the volatile file and the mappings file are the         *)
(* environment: they outlive a run of the process.  Everything else is     *)
(* process state and is rebuilt by Restart.                                *)
(***************************************************************************)
EXTENDS Integers, Sequences, FiniteSets, TLC

VARIABLES
    args,              \* the command line: the flags as flag.Parse() left them
    run,               \* which run of the process this is (1 = first start)
    pc,                \* position of the process in parseConfig / main
    fatalMsg,          \* message of the log.Fatal() that ended the run, "" if none
    fatalErr,          \* the error wrapped by that log.Fatal(), "" if none
    accessUrl,         \* package variable accessUrl
    storedAccessUrl,   \* parseConfig's local: what getAccessUrlFromSecret returned
    newAccessUrl,      \* parseConfig's local: what the token exchange returned
    resp,              \* how createClientAndGetAccessUrl's request ended
    saveErr,           \* parseConfig's local: what saveAccessUrlToSecret returned
    client,            \* the simplefin client: the URL it was built with
    updateInterval,    \* package variable updateInterval, in seconds
    accountMappings,   \* package variable accountMappings (the mapping policy)
    httpServ,          \* TRUE once startExporterServer has run
    gauges,            \* the exporter's three GaugeVecs
    exportLog,         \* what the latest Export call logged
    secret,            \* environment: the Kubernetes secret
    volatileFile,      \* environment: the file at accessUrlVolatileFile
    mappingsFile,      \* environment: the file at accountMappingsFile
    calls              \* per-run history: how often each external call was made

vars == <<args, run, pc, fatalMsg, fatalErr, accessUrl, storedAccessUrl,
          newAccessUrl, resp, saveErr, client, updateInterval, accountMappings,
          httpServ, gauges, exportLog, secret, volatileFile, mappingsFile,
          calls>>

(***************************************************************************)
(* Bounds of the model.                                                    *)
(***************************************************************************)
MaxRuns == 2
MaxPolls == 2
MaxRecords == 2

(***************************************************************************)
(* Strings.                                                                *)
(***************************************************************************)
Char(s, i) == SubSeq(s, i, i)

\* strings.HasPrefix
HasPrefix(s, prefix) ==
    /\ Len(s) >= Len(prefix)
    /\ SubSeq(s, 1, Len(prefix)) = prefix

\* position of character c in alphabet, 0 if it is not in it
IndexOf(c, alphabet) ==
    LET at == {k \in 1..Len(alphabet) : Char(alphabet, k) = c}
    IN  IF at = {} THEN 0 ELSE CHOOSE k \in at : TRUE

UpperLetters == "ABCDEFGHIJKLMNOPQRSTUVWXYZ"
LowerLetters == "abcdefghijklmnopqrstuvwxyz"
Digits == "0123456789"

CharsOf(alphabet) == {Char(alphabet, k) : k \in 1..Len(alphabet)}
LetterChars == CharsOf(UpperLetters) \cup CharsOf(LowerLetters)
DigitChars == CharsOf(Digits)

IsLetter(c) == c \in LetterChars
IsDigit(c) == c \in DigitChars

\* strings.ToLower, on ASCII
RECURSIVE ToLower(_)
ToLower(s) ==
    IF s = "" THEN ""
    ELSE LET c == Char(s, 1)
             k == IndexOf(c, UpperLetters)
         IN  (IF k > 0 THEN Char(LowerLetters, k) ELSE c)
             \o ToLower(SubSeq(s, 2, Len(s)))

(***************************************************************************)
(* encoding/base64: StdEncoding.DecodeString.  The alphabet is the         *)
(* standard one, '=' pads the last quantum, and the input length must be   *)
(* a multiple of four.  Bytes are turned back into characters with the     *)
(* ASCII table from 32 (space) to 126 (~); a set-up token of the model     *)
(* decodes to bytes in that range.                                         *)
(***************************************************************************)
B64Alphabet ==
    "ABCDEFGHIJKLMNOPQRSTUVWXYZabcdefghijklmnopqrstuvwxyz0123456789+/"

AsciiFrom32 ==
    " !\"#$%&'()*+,-./0123456789:;<=>?@ABCDEFGHIJKLMNOPQRSTUVWXYZ[\\]^_"

AsciiFrom97 == "abcdefghijklmnopqrstuvwxyz{|}~"

\* bytes 32..95 and 97..126 (a TLA+ string cannot hold the grave accent, 96)
ByteToChar(b) ==
    IF b < 96 THEN Char(AsciiFrom32, b - 31) ELSE Char(AsciiFrom97, b - 96)

B64Val(c) == IndexOf(c, B64Alphabet) - 1

\* one quantum of four characters: [err, out]
B64Quantum(q, last) ==
    LET c1 == Char(q, 1)
        c2 == Char(q, 2)
        c3 == Char(q, 3)
        c4 == Char(q, 4)
        pad2 == last /\ c3 = "=" /\ c4 = "="
        pad1 == last /\ c3 # "=" /\ c4 = "="
        v1 == B64Val(c1)
        v2 == B64Val(c2)
        v3 == IF pad2 THEN 0 ELSE B64Val(c3)
        v4 == IF pad2 \/ pad1 THEN 0 ELSE B64Val(c4)
        n == v1 * 262144 + v2 * 4096 + v3 * 64 + v4
        b1 == n \div 65536
        b2 == (n \div 256) % 256
        b3 == n % 256
    IN  IF v1 < 0 \/ v2 < 0 \/ v3 < 0 \/ v4 < 0
        THEN [err |-> TRUE, out |-> ""]
        ELSE [err |-> FALSE,
              out |-> ByteToChar(b1)
                      \o (IF pad2 THEN "" ELSE ByteToChar(b2))
                      \o (IF pad2 \/ pad1 THEN "" ELSE ByteToChar(b3))]

RECURSIVE B64Decode(_)
B64Decode(s) ==
    IF s = "" THEN [err |-> FALSE, out |-> ""]
    ELSE IF Len(s) < 4 THEN [err |-> TRUE, out |-> ""]
    ELSE LET q == B64Quantum(SubSeq(s, 1, 4), Len(s) = 4)
             rest == B64Decode(SubSeq(s, 5, Len(s)))
         IN  IF q.err \/ rest.err
             THEN [err |-> TRUE, out |-> ""]
             ELSE [err |-> FALSE, out |-> q.out \o rest.out]

\* the set-up tokens of the model's command lines, decoded once: base64 of
\* "http://c", no base64, base64 of ":c" (no URL), base64 of "c" (a URL
\* without a scheme)
SetupTokens == {"", "aHR0cDovL2M=", "!!!!", "OmM=", "Yw=="}

DecodedTokens == [t \in SetupTokens |-> B64Decode(t)]

\* base64.StdEncoding.DecodeString
DecodeString(t) ==
    IF t \in SetupTokens THEN DecodedTokens[t] ELSE B64Decode(t)

(***************************************************************************)
(* net/url: Parse followed by String, as ReadAndDeleteAccessURLFile and    *)
(* http.NewRequest use them.  Modelled: the control-character check, the   *)
(* scheme scan (getScheme), the lower-casing of the scheme and the colon   *)
(* check on the first path segment.  The URLs of the model have no         *)
(* userinfo, port, query, fragment or character that needs escaping, so    *)
(* what follows the scheme is printed back as it was read.                 *)
(***************************************************************************)
RECURSIVE ContainsCTLByte(_)
ContainsCTLByte(s) ==
    IF s = "" THEN FALSE
    ELSE Char(s, 1) \in {"\n", "\r", "\t"} \/ ContainsCTLByte(SubSeq(s, 2, Len(s)))

\* getScheme: [err, scheme, rest]; i is the position being scanned
RECURSIVE GetScheme(_, _)
GetScheme(rawURL, i) ==
    IF i > Len(rawURL) THEN [err |-> FALSE, scheme |-> "", rest |-> rawURL]
    ELSE LET c == Char(rawURL, i)
         IN  IF IsLetter(c) THEN GetScheme(rawURL, i + 1)
             ELSE IF IsDigit(c) \/ c \in {"+", "-", "."}
             THEN IF i = 1
                  THEN [err |-> FALSE, scheme |-> "", rest |-> rawURL]
                  ELSE GetScheme(rawURL, i + 1)
             ELSE IF c = ":"
             THEN IF i = 1
                  THEN [err |-> TRUE, scheme |-> "", rest |-> ""]
                  ELSE [err |-> FALSE,
                        scheme |-> SubSeq(rawURL, 1, i - 1),
                        rest |-> SubSeq(rawURL, i + 1, Len(rawURL))]
             ELSE [err |-> FALSE, scheme |-> "", rest |-> rawURL]

\* the first path segment of a relative path holds a colon
RECURSIVE ColonInFirstSegment(_)
ColonInFirstSegment(s) ==
    IF s = "" THEN FALSE
    ELSE IF Char(s, 1) = "/" THEN FALSE
    ELSE IF Char(s, 1) = ":" THEN TRUE
    ELSE ColonInFirstSegment(SubSeq(s, 2, Len(s)))

\* url.Parse: [err, scheme, rest]
UrlParse(rawURL) ==
    LET g == GetScheme(rawURL, 1)
    IN  IF ContainsCTLByte(rawURL) \/ g.err
        THEN [err |-> TRUE, scheme |-> "", rest |-> ""]
        ELSE IF g.scheme = "" /\ ~HasPrefix(g.rest, "/") /\ ColonInFirstSegment(g.rest)
        THEN [err |-> TRUE, scheme |-> "", rest |-> ""]
        ELSE [err |-> FALSE, scheme |-> ToLower(g.scheme), rest |-> g.rest]

\* (*URL).String
UrlString(u) ==
    IF u.scheme = "" THEN u.rest ELSE u.scheme \o ":" \o u.rest


(***************************************************************************)
(* The flags (parseConfig, lines 123-134) read through the names of the    *)
(* package variables they are parsed into.                                 *)
(***************************************************************************)
setupToken == args.setupToken
accessUrlVolatileFile == args.accessUrlVolatileFile
secretName == args.secretName
secretNamespace == args.secretNamespace
accountMappingsFile == args.accountMappingsFile
duration == args.duration

\* "if secretName != "" && secretNamespace != """ (lines 68, 94, 142, 190)
SecretConfigured == secretName # "" /\ secretNamespace # ""

(***************************************************************************)
(* The Kubernetes secret: exists says whether the record is there, nilData *)
(* whether its Data map is nil, keys which fields Data holds and data      *)
(* their values ("" for a field that is not held).                         *)
(***************************************************************************)
SecretKeys == {"access_url", "other"}

NoData == [k \in SecretKeys |-> ""]

NoSecret == [exists |-> FALSE, nilData |-> TRUE, keys |-> {}, data |-> NoData]

SecretWith(keys, url, other) ==
    [exists |-> TRUE, nilData |-> FALSE, keys |-> keys,
     data |-> [k \in SecretKeys |->
                 IF k \notin keys THEN ""
                 ELSE IF k = "access_url" THEN url ELSE other]]

NilDataSecret == [exists |-> TRUE, nilData |-> TRUE, keys |-> {}, data |-> NoData]

\* Secrets(ns).Get: it fails when the record is absent, and may fail anyway
\* (API server unreachable, access denied)
GetOutcomes == IF secret.exists THEN {"ok", "error"} ELSE {"error"}

\* getAccessUrlFromSecret without the check of the scheme
GetAccessUrlFromSecretUnchecked(getOutcome) ==
    IF secretName = "" \/ secretNamespace = "" THEN ""
    ELSE IF getOutcome = "error" THEN ""
    ELSE IF "access_url" \in secret.keys THEN secret.data["access_url"]
    ELSE ""

\* getAccessUrlFromSecret, given how the Get ended
GetAccessUrlFromSecret(getOutcome) ==
    IF secretName = "" \/ secretNamespace = "" THEN ""
    ELSE IF getOutcome = "error" THEN ""
    ELSE IF "access_url" \in secret.keys
    THEN LET accessUrlStr == secret.data["access_url"]
         IN  IF HasPrefix(accessUrlStr, "http://") \/ HasPrefix(accessUrlStr, "https://")
             THEN accessUrlStr
             ELSE ""
    ELSE ""

\* the record handed to Update with Data made but access_url not set
SecretToUpdateFieldNotSet(url) ==
    [exists |-> TRUE, nilData |-> FALSE, keys |-> secret.keys, data |-> secret.data]

\* the record handed to Update with a new Data that holds access_url alone
SecretToUpdateFreshData(url) ==
    [exists |-> TRUE, nilData |-> FALSE, keys |-> {"access_url"},
     data |-> [NoData EXCEPT !["access_url"] = url]]

\* the record saveAccessUrlToSecret hands to Update: Data made if nil, then
\* Data["access_url"] set
SecretToUpdate(url) ==
    [exists |-> TRUE, nilData |-> FALSE,
     keys |-> secret.keys \cup {"access_url"},
     data |-> [secret.data EXCEPT !["access_url"] = url]]

(***************************************************************************)
(* Process state at the start of a run, and the per-run call history.      *)
(***************************************************************************)
NoCalls ==
    [k8sInit |-> 0, secretGet |-> 0, secretUpdate |-> 0, fileRead |-> 0,
     fileRemove |-> 0, claimPost |-> 0, loadMappings |-> 0, getAccounts |-> 0,
     export |-> 0]

Called(what) == [calls EXCEPT ![what] = @ + 1]

NoResp == [kind |-> "none", status |-> 0, body |-> ""]

NoFile == [exists |-> FALSE, content |-> ""]

NoGauges ==
    [balances |-> <<>>, availableBalances |-> <<>>, last_updated |-> <<>>]

EmptyPolicy == [Mappings |-> <<>>, IgnoreList |-> <<>>]

NoMappingsFile == [exists |-> FALSE, valid |-> FALSE, config |-> EmptyPolicy]

\* the process right after flag.Parse()
ProcessStart(a) ==
    /\ pc = "parseConfig"
    /\ fatalMsg = ""
    /\ fatalErr = ""
    /\ accessUrl = a.accessUrl
    /\ storedAccessUrl = ""
    /\ newAccessUrl = ""
    /\ resp = NoResp
    /\ saveErr = ""
    /\ client = ""
    /\ updateInterval = 0
    /\ accountMappings = EmptyPolicy
    /\ httpServ = FALSE
    /\ gauges = NoGauges
    /\ exportLog = <<>>
    /\ calls = NoCalls

\* log.Fatal(): the process exits
Fatal(msg, err) ==
    /\ pc' = "exited"
    /\ fatalMsg' = msg
    /\ fatalErr' = err

NotFatal == UNCHANGED <<fatalMsg, fatalErr>>

(***************************************************************************)
(* parseConfig, lines 141-156: the Kubernetes client and the secret read.  *)
(***************************************************************************)
\* lines 141-156 without "accessUrl = storedAccessUrl"
InitSecretNotAdopted ==
    /\ pc = "parseConfig"
    /\ IF SecretConfigured
       THEN \E k8sOk \in BOOLEAN :
              IF ~k8sOk
              THEN /\ Fatal("failed to initialize kubernetes client",
                            "failed to create in-cluster config")
                   /\ calls' = Called("k8sInit")
                   /\ UNCHANGED <<accessUrl, storedAccessUrl>>
              ELSE \E getOutcome \in GetOutcomes :
                     /\ storedAccessUrl' = GetAccessUrlFromSecret(getOutcome)
                     /\ UNCHANGED accessUrl
                     /\ calls' = [calls EXCEPT !.k8sInit = @ + 1, !.secretGet = @ + 1]
                     /\ pc' = "volatileFile"
                     /\ NotFatal
       ELSE /\ pc' = "volatileFile"
            /\ NotFatal
            /\ UNCHANGED <<accessUrl, storedAccessUrl, calls>>
    /\ UNCHANGED <<args, run, newAccessUrl, resp, saveErr, client, updateInterval,
                   accountMappings, httpServ, gauges, exportLog, secret,
                   volatileFile, mappingsFile>>

InitSecret ==
    /\ pc = "parseConfig"
    /\ IF SecretConfigured
       THEN \E k8sOk \in BOOLEAN :
              IF ~k8sOk
              THEN /\ Fatal("failed to initialize kubernetes client",
                            "failed to create in-cluster config")
                   /\ calls' = Called("k8sInit")
                   /\ UNCHANGED <<accessUrl, storedAccessUrl>>
              ELSE \E getOutcome \in GetOutcomes :
                     LET stored == GetAccessUrlFromSecret(getOutcome)
                     IN  /\ storedAccessUrl' = stored
                         /\ accessUrl' = IF stored # "" THEN stored ELSE accessUrl
                         /\ calls' = [calls EXCEPT !.k8sInit = @ + 1, !.secretGet = @ + 1]
                         /\ pc' = "volatileFile"
                         /\ NotFatal
       ELSE /\ pc' = "volatileFile"
            /\ NotFatal
            /\ UNCHANGED <<accessUrl, storedAccessUrl, calls>>
    /\ UNCHANGED <<args, run, newAccessUrl, resp, saveErr, client, updateInterval,
                   accountMappings, httpServ, gauges, exportLog, secret,
                   volatileFile, mappingsFile>>

(***************************************************************************)
(* config.ReadAndDeleteAccessURLFile and its call, lines 158-163.          *)
(* os.ReadFile fails on a missing file and may fail on one that is there   *)
(* (permissions); os.Remove may fail (read-only directory).                *)
(***************************************************************************)
ReadOutcomes == IF volatileFile.exists THEN {"ok", "error"} ELSE {"error"}

\* ReadAndDeleteAccessURLFile without the os.Remove
ReadAccessURLFileAndKeep(readOutcome, removeOk) ==
    LET parsedUrl == UrlParse(volatileFile.content)
    IN  IF readOutcome = "error"
        THEN [err |-> "error reading AccessUrl path", url |-> "", file |-> volatileFile]
        ELSE IF parsedUrl.err
        THEN [err |-> "error parsing AccessUrl", url |-> "", file |-> volatileFile]
        ELSE [err |-> "", url |-> UrlString(parsedUrl), file |-> volatileFile]

\* [err, url, file]: the error ("" if none), the string returned and the
\* file as the call leaves it
ReadAndDeleteAccessURLFile(readOutcome, removeOk) ==
    LET parsedUrl == UrlParse(volatileFile.content)
    IN  IF readOutcome = "error"
        THEN [err |-> "error reading AccessUrl path", url |-> "", file |-> volatileFile]
        ELSE IF parsedUrl.err
        THEN [err |-> "error parsing AccessUrl", url |-> "", file |-> volatileFile]
        ELSE IF ~removeOk
        THEN [err |-> "error removing AccessUrl file", url |-> "", file |-> volatileFile]
        ELSE [err |-> "", url |-> UrlString(parsedUrl), file |-> NoFile]

ReadVolatileFile ==
    /\ pc = "volatileFile"
    /\ IF accessUrlVolatileFile # ""
       THEN \E readOutcome \in ReadOutcomes, removeOk \in BOOLEAN :
              LET r == ReadAndDeleteAccessURLFile(readOutcome, removeOk)
              IN  /\ volatileFile' = r.file
                  /\ accessUrl' = r.url
                  /\ calls' = [calls EXCEPT
                                 !.fileRead = @ + 1,
                                 !.fileRemove = IF r.err \in {"", "error removing AccessUrl file"}
                                                THEN @ + 1 ELSE @]
                  /\ IF r.err # ""
                     THEN Fatal("failed to read AccessUrl config", r.err)
                     ELSE pc' = "credentials" /\ NotFatal
       ELSE /\ pc' = "credentials"
            /\ NotFatal
            /\ UNCHANGED <<accessUrl, volatileFile, calls>>
    /\ UNCHANGED <<args, run, storedAccessUrl, newAccessUrl, resp, saveErr, client,
                   updateInterval, accountMappings, httpServ, gauges, exportLog,
                   secret, mappingsFile>>

(***************************************************************************)
(* time.ParseDuration on strings made of decimal integers each followed    *)
(* by a unit h, m or s ("1h0m0s" is defInterval.String(), the default):    *)
(* [err, seconds].  Anything else in the model's inputs is no duration.    *)
(***************************************************************************)
UnitSeconds(u) ==
    IF u = "h" THEN 3600 ELSE IF u = "m" THEN 60 ELSE IF u = "s" THEN 1 ELSE 0

\* number of leading digits of s
RECURSIVE LeadingDigits(_)
LeadingDigits(s) ==
    IF s = "" \/ ~IsDigit(Char(s, 1)) THEN 0
    ELSE 1 + LeadingDigits(SubSeq(s, 2, Len(s)))

\* value of a string of digits
RECURSIVE DigitsValue(_)
DigitsValue(s) ==
    IF s = "" THEN 0
    ELSE DigitsValue(SubSeq(s, 1, Len(s) - 1)) * 10
         + (IndexOf(Char(s, Len(s)), Digits) - 1)

RECURSIVE ParseDurationFrom(_, _)
ParseDurationFrom(s, first) ==
    IF s = "" THEN [err |-> first, seconds |-> 0]
    ELSE LET n == LeadingDigits(s)
             unit == IF Len(s) > n THEN Char(s, n + 1) ELSE ""
             rest == ParseDurationFrom(SubSeq(s, n + 2, Len(s)), FALSE)
         IN  IF n = 0 \/ UnitSeconds(unit) = 0 \/ rest.err
             THEN [err |-> TRUE, seconds |-> 0]
             ELSE [err |-> FALSE,
                   seconds |-> DigitsValue(SubSeq(s, 1, n)) * UnitSeconds(unit)
                               + rest.seconds]

ParseDuration(s) == ParseDurationFrom(s, TRUE)

\* lines 165-177 without the check that a credential source is there
CheckCredentialsNotRequired ==
    /\ pc = "credentials"
    /\ LET updIval == ParseDuration(duration)
       IN  IF updIval.err
           THEN /\ Fatal("error parsing duration", "invalid duration")
                /\ UNCHANGED updateInterval
           ELSE /\ updateInterval' = updIval.seconds
                /\ pc' = "client"
                /\ NotFatal
    /\ UNCHANGED <<args, run, accessUrl, storedAccessUrl, newAccessUrl, resp,
                   saveErr, client, accountMappings, httpServ, gauges, exportLog,
                   secret, volatileFile, mappingsFile, calls>>

(***************************************************************************)
(* parseConfig, lines 165-177: a credential source is required, and the    *)
(* update interval must parse.                                             *)
(***************************************************************************)
CheckCredentials ==
    /\ pc = "credentials"
    /\ IF accessUrl = "" /\ setupToken = ""
       THEN /\ Fatal("Access URL or Setup Token required", "")
            /\ UNCHANGED updateInterval
       ELSE LET updIval == ParseDuration(duration)
            IN  IF updIval.err
                THEN /\ Fatal("error parsing duration", "invalid duration")
                     /\ UNCHANGED updateInterval
                ELSE /\ updateInterval' = updIval.seconds
                     /\ pc' = "client"
                     /\ NotFatal
    /\ UNCHANGED <<args, run, accessUrl, storedAccessUrl, newAccessUrl, resp, saveErr,
                   client, accountMappings, httpServ, gauges, exportLog, secret, volatileFile, mappingsFile, calls>>

\* the branch of line 179 taken on the explicit flag alone
UseAccessUrlFlagOnly == args.accessUrl # ""

\* "if accessUrl != """, line 179
UseAccessUrl == accessUrl # ""

(***************************************************************************)
(* parseConfig, lines 179-180 and 202-204: the client is built from the    *)
(* access URL at hand.  simplefin.NewSimplefinClient may refuse its        *)
(* argument.                                                               *)
(***************************************************************************)
\* lines 179-180 with the access URL at hand saved to the store as well
CreateClientAndSave ==
    /\ pc = "client"
    /\ UseAccessUrl
    /\ \E clientOk \in BOOLEAN :
         IF clientOk
         THEN /\ client' = accessUrl
              /\ pc' = "mappings"
              /\ NotFatal
         ELSE /\ Fatal("failed to initialize simplefin client", "invalid access url")
              /\ UNCHANGED client
    /\ IF SecretConfigured /\ secret.exists
       THEN /\ secret' = [exists |-> TRUE, nilData |-> FALSE,
                          keys |-> secret.keys \cup {"access_url"},
                          data |-> [secret.data EXCEPT !["access_url"] = accessUrl]]
            /\ calls' = [calls EXCEPT !.secretGet = @ + 1, !.secretUpdate = @ + 1]
       ELSE UNCHANGED <<secret, calls>>
    /\ UNCHANGED <<args, run, accessUrl, storedAccessUrl, newAccessUrl, resp, saveErr,
                   updateInterval, accountMappings, httpServ, gauges, exportLog,
                   volatileFile, mappingsFile>>

CreateClient ==
    /\ pc = "client"
    /\ UseAccessUrl
    /\ \E clientOk \in BOOLEAN :
         IF clientOk
         THEN /\ client' = accessUrl
              /\ pc' = "mappings"
              /\ NotFatal
         ELSE /\ Fatal("failed to initialize simplefin client", "invalid access url")
              /\ UNCHANGED client
    /\ UNCHANGED <<args, run, accessUrl, storedAccessUrl, newAccessUrl, resp, saveErr,
                   updateInterval, accountMappings, httpServ, gauges, exportLog,
                   secret, volatileFile, mappingsFile, calls>>

(***************************************************************************)
(* createClientAndGetAccessUrl and its call, lines 182-187.  How the       *)
(* request ends is the remote side's choice: a transport error, or a       *)
(* response with a status and a body, whose read may fail.                 *)
(***************************************************************************)
StatusOK == 200
Statuses == {StatusOK, 403}

Bodies == {"https://a", "", "Forbidden"}

\* what http.DefaultClient.Do and io.ReadAll can come to for a claim URL
Responses(claimUrl) ==
    {[kind |-> "transportError", status |-> 0, body |-> ""]}
    \cup (IF UrlParse(claimUrl).scheme \in {"http", "https"}
          THEN {[kind |-> k, status |-> st, body |-> IF k = "readError" THEN "" ELSE b] :
                  k \in {"response", "readError"}, st \in Statuses, b \in Bodies}
          ELSE {})

\* createClientAndGetAccessUrl without the check of the status code
CreateClientAndGetAccessUrlAnyStatus(token, r) ==
    LET claimUrl == DecodeString(token)
    IN  IF claimUrl.err
        THEN [err |-> "error decoding base64 setupToken", url |-> "",
              resp |-> [kind |-> "notSent", status |-> 0, body |-> ""], posted |-> FALSE]
        ELSE IF UrlParse(claimUrl.out).err
        THEN [err |-> "error creating request", url |-> "",
              resp |-> [kind |-> "notSent", status |-> 0, body |-> ""], posted |-> FALSE]
        ELSE IF r.kind = "transportError"
        THEN [err |-> "error requesting access url", url |-> "", resp |-> r, posted |-> TRUE]
        ELSE IF r.kind = "readError"
        THEN [err |-> "error getting access url", url |-> "", resp |-> r, posted |-> TRUE]
        ELSE [err |-> "", url |-> r.body, resp |-> r, posted |-> TRUE]

\* [err, url, resp, posted]: the error ("" if none), the string returned,
\* how the request ended and whether a request was sent at all
CreateClientAndGetAccessUrl(token, r) ==
    LET claimUrl == DecodeString(token)
    IN  IF claimUrl.err
        THEN [err |-> "error decoding base64 setupToken", url |-> "",
              resp |-> [kind |-> "notSent", status |-> 0, body |-> ""], posted |-> FALSE]
        ELSE IF UrlParse(claimUrl.out).err
        THEN [err |-> "error creating request", url |-> "",
              resp |-> [kind |-> "notSent", status |-> 0, body |-> ""], posted |-> FALSE]
        ELSE IF r.kind = "transportError"
        THEN [err |-> "error requesting access url", url |-> "", resp |-> r, posted |-> TRUE]
        ELSE IF r.kind = "readError"
        THEN [err |-> "error getting access url", url |-> "", resp |-> r, posted |-> TRUE]
        ELSE IF r.status # StatusOK
        THEN [err |-> "setup token claim failed with status", url |-> "",
              resp |-> r, posted |-> TRUE]
        ELSE [err |-> "", url |-> r.body, resp |-> r, posted |-> TRUE]

ExchangeToken ==
    /\ pc = "client"
    /\ ~UseAccessUrl
    /\ \E r \in Responses(DecodeString(setupToken).out) :
         LET x == CreateClientAndGetAccessUrl(setupToken, r)
         IN  /\ resp' = x.resp
             /\ newAccessUrl' = x.url
             /\ calls' = IF x.posted THEN Called("claimPost") ELSE calls
             /\ IF x.err # ""
                THEN Fatal("failed to create client from setup token", x.err)
                ELSE pc' = "saveSecret" /\ NotFatal
    /\ UNCHANGED <<args, run, accessUrl, storedAccessUrl, saveErr, client,
                   updateInterval, accountMappings, httpServ, gauges, exportLog,
                   secret, volatileFile, mappingsFile>>

(***************************************************************************)
(* saveAccessUrlToSecret and its call, lines 189-196: Get, set the field,  *)
(* Update.  Either call may fail; the caller only warns.                   *)
(***************************************************************************)
\* [err, secret, updated]: the error returned, the secret afterwards and
\* whether Update was called
SaveAccessUrlToSecret(url, getOutcome, updateOk) ==
    IF secretName = "" \/ secretNamespace = ""
    THEN [err |-> "", secret |-> secret, updated |-> FALSE]
    ELSE IF getOutcome = "error"
    THEN [err |-> "failed to get secret for update", secret |-> secret, updated |-> FALSE]
    ELSE IF ~updateOk
    THEN [err |-> "failed to update secret with access URL", secret |-> secret,
          updated |-> TRUE]
    ELSE [err |-> "", secret |-> SecretToUpdate(url), updated |-> TRUE]

\* lines 189-196 with a fatal error where the caller warns
SaveSecretOrDie ==
    /\ pc = "saveSecret"
    /\ IF SecretConfigured
       THEN \E getOutcome \in GetOutcomes, updateOk \in BOOLEAN :
              LET x == SaveAccessUrlToSecret(newAccessUrl, getOutcome, updateOk)
              IN  /\ secret' = x.secret
                  /\ saveErr' = x.err
                  /\ calls' = [calls EXCEPT
                                 !.secretGet = @ + 1,
                                 !.secretUpdate = IF x.updated THEN @ + 1 ELSE @]
                  /\ IF x.err # ""
                     THEN Fatal("failed to save access URL to secret", x.err)
                     ELSE pc' = "newClient" /\ NotFatal
       ELSE /\ UNCHANGED <<secret, saveErr, calls>>
            /\ pc' = "newClient"
            /\ NotFatal
    /\ UNCHANGED <<args, run, accessUrl, storedAccessUrl,
                   newAccessUrl, resp, client, updateInterval, accountMappings,
                   httpServ, gauges, exportLog, volatileFile, mappingsFile>>

SaveSecret ==
    /\ pc = "saveSecret"
    /\ IF SecretConfigured
       THEN \E getOutcome \in GetOutcomes, updateOk \in BOOLEAN :
              LET x == SaveAccessUrlToSecret(newAccessUrl, getOutcome, updateOk)
              IN  /\ secret' = x.secret
                  /\ saveErr' = x.err
                  /\ calls' = [calls EXCEPT
                                 !.secretGet = @ + 1,
                                 !.secretUpdate = IF x.updated THEN @ + 1 ELSE @]
       ELSE UNCHANGED <<secret, saveErr, calls>>
    /\ pc' = "newClient"
    /\ UNCHANGED <<args, run, fatalMsg, fatalErr, accessUrl, storedAccessUrl,
                   newAccessUrl, resp, client, updateInterval, accountMappings,
                   httpServ, gauges, exportLog, volatileFile, mappingsFile>>

\* parseConfig, lines 198-204: the client is built from the exchanged URL
CreateClientFromToken ==
    /\ pc = "newClient"
    /\ \E clientOk \in BOOLEAN :
         IF clientOk
         THEN /\ client' = newAccessUrl
              /\ pc' = "mappings"
              /\ NotFatal
         ELSE /\ Fatal("failed to initialize simplefin client", "invalid access url")
              /\ UNCHANGED client
    /\ UNCHANGED <<args, run, accessUrl, storedAccessUrl, newAccessUrl, resp, saveErr,
                   updateInterval, accountMappings, httpServ, gauges, exportLog,
                   secret, volatileFile, mappingsFile, calls>>

(***************************************************************************)
(* config.LoadAccountMappings and its call, lines 206-210.  The mappings   *)
(* file holds a document that json.Unmarshal accepts (valid, with the      *)
(* policy it decodes to) or refuses.                                       *)
(***************************************************************************)
MappingsReadOutcomes ==
    IF mappingsFile.exists THEN {"ok", "error"} ELSE {"notExist"}

\* LoadAccountMappings without the os.IsNotExist case: a missing file is an error
LoadAccountMappingsStrict(filepath, readOutcome) ==
    IF filepath = "" THEN [err |-> "", config |-> EmptyPolicy]
    ELSE IF readOutcome \in {"notExist", "error"}
    THEN [err |-> "error reading account mappings file", config |-> EmptyPolicy]
    ELSE IF ~mappingsFile.valid
    THEN [err |-> "error parsing account mappings JSON", config |-> EmptyPolicy]
    ELSE [err |-> "", config |-> mappingsFile.config]

\* [err, config]
LoadAccountMappings(filepath, readOutcome) ==
    IF filepath = "" THEN [err |-> "", config |-> EmptyPolicy]
    ELSE IF readOutcome = "notExist" THEN [err |-> "", config |-> EmptyPolicy]
    ELSE IF readOutcome = "error"
    THEN [err |-> "error reading account mappings file", config |-> EmptyPolicy]
    ELSE IF ~mappingsFile.valid
    THEN [err |-> "error parsing account mappings JSON", config |-> EmptyPolicy]
    ELSE [err |-> "", config |-> mappingsFile.config]

LoadMappings ==
    /\ pc = "mappings"
    /\ \E readOutcome \in MappingsReadOutcomes :
         LET x == LoadAccountMappings(accountMappingsFile, readOutcome)
         IN  IF x.err # ""
             THEN /\ Fatal("failed to load account mappings", x.err)
                  /\ UNCHANGED accountMappings
             ELSE /\ accountMappings' = x.config
                  /\ pc' = "main"
                  /\ NotFatal
    /\ calls' = Called("loadMappings")
    /\ UNCHANGED <<args, run, accessUrl, storedAccessUrl, newAccessUrl, resp, saveErr,
                   client, updateInterval, httpServ, gauges, exportLog, secret, volatileFile, mappingsFile>>

(***************************************************************************)
(* strconv.ParseFloat(s, 32) on decimal strings: an optional sign, digits  *)
(* with at most one point, at least one digit.  The result is the nearest  *)
(* float32 (24-bit mantissa, ties to even), held as the float64 the gauge  *)
(* stores: (-1)^neg * mant * 2^exp with mant odd, or mant = 0 and exp = 0. *)
(* The model's balances have at most two fraction digits and stay far      *)
(* from the float32 range limits; none spells an exponent, a hexadecimal   *)
(* number, an infinity or a NaN.                                           *)
(***************************************************************************)
Zero(neg) == [neg |-> neg, mant |-> 0, exp |-> 0]

\* mant * 2^exp with the factors of two moved out of mant
RECURSIVE Normalise(_, _, _)
Normalise(neg, mant, exp) ==
    IF mant = 0 THEN Zero(neg)
    ELSE IF mant % 2 = 0 THEN Normalise(neg, mant \div 2, exp + 1)
    ELSE [neg |-> neg, mant |-> mant, exp |-> exp]

RECURSIVE Pow10(_)
Pow10(k) == IF k = 0 THEN 1 ELSE 10 * Pow10(k - 1)

Mant23 == 8388608
Mant24 == 16777216

\* num / den * 2^exp rounded to 24 bits
RECURSIVE RoundFloat32(_, _, _, _)
RoundFloat32(neg, num, den, exp) ==
    IF num \div den >= Mant24 THEN RoundFloat32(neg, num, den * 2, exp + 1)
    ELSE IF num \div den < Mant23 THEN RoundFloat32(neg, num * 2, den, exp - 1)
    ELSE LET q == num \div den
             r == num % den
             up == 2 * r > den \/ (2 * r = den /\ q % 2 = 1)
         IN  Normalise(neg, IF up THEN q + 1 ELSE q, exp)

\* [err, val]
ParseFloat32(s) ==
    LET signed == s # "" /\ Char(s, 1) \in {"+", "-"}
        neg == s # "" /\ Char(s, 1) = "-"
        body == IF signed THEN SubSeq(s, 2, Len(s)) ELSE s
        i == LeadingDigits(body)
        after == SubSeq(body, i + 1, Len(body))
        frac == IF after # "" /\ Char(after, 1) = "." THEN SubSeq(after, 2, Len(after)) ELSE ""
        j == LeadingDigits(frac)
        wellFormed == /\ i + j >= 1
                      /\ \/ after = ""
                         \/ Char(after, 1) = "." /\ j = Len(frac)
        n == DigitsValue(SubSeq(body, 1, i) \o frac)
    IN  IF ~wellFormed THEN [err |-> TRUE, val |-> Zero(FALSE)]
        ELSE IF n = 0 THEN [err |-> FALSE, val |-> Zero(neg)]
        ELSE [err |-> FALSE, val |-> RoundFloat32(neg, n, Pow10(j), 0)]

\* the balance strings of the model's snapshots, parsed once
BalanceStrings == {"100.50", "90.00", "7", "16777217", "N/A"}

ParsedBalances == [s \in BalanceStrings |-> ParseFloat32(s)]

\* strconv.ParseFloat(s, 32)
ParseFloat(s) ==
    IF s \in BalanceStrings THEN ParsedBalances[s] ELSE ParseFloat32(s)

\* float64(accItem.BalanceDate): exact for the timestamps of the model
FromInt(n) == IF n < 0 THEN Normalise(TRUE, -n, 0) ELSE Normalise(FALSE, n, 0)

(***************************************************************************)
(* config.AccountMappingConfig: the two lookups.                           *)
(***************************************************************************)
\* the custom name of the last mapping with this account ID, else the original
GetAccountNameMappingLast(config, accountID, originalName) ==
    LET hits == {i \in 1..Len(config.Mappings) : config.Mappings[i].AccountID = accountID}
    IN  IF hits = {} THEN originalName
        ELSE config.Mappings[CHOOSE i \in hits : \A j \in hits : i >= j].CustomName

\* the custom name of the first mapping with this account ID, else the original
GetAccountNameMapping(config, accountID, originalName) ==
    LET hits == {i \in 1..Len(config.Mappings) : config.Mappings[i].AccountID = accountID}
    IN  IF hits = {} THEN originalName
        ELSE config.Mappings[CHOOSE i \in hits : \A j \in hits : i <= j].CustomName

\* an ignore list that is never consulted
IsAccountNeverIgnored(config, accountID) == FALSE

IsAccountIgnored(config, accountID) ==
    \E i \in 1..Len(config.IgnoreList) : config.IgnoreList[i] = accountID

RECURSIVE Pow2(_)
Pow2(k) == IF k = 0 THEN 1 ELSE 2 * Pow2(k - 1)

\* a + b, exact for the values of the model
AddFloat(a, b) ==
    LET e == IF a.exp < b.exp THEN a.exp ELSE b.exp
        signed(x) == (IF x.neg THEN -1 ELSE 1) * x.mant * Pow2(x.exp - e)
        sum == signed(a) + signed(b)
    IN  IF sum < 0 THEN Normalise(TRUE, -sum, e) ELSE Normalise(FALSE, sum, e)

\* WithLabelValues(...).Add in place of Set: the value accumulates
AddGauge(vec, labels, v) ==
    [l \in (DOMAIN vec) \cup {labels} |->
        IF l # labels THEN vec[l]
        ELSE IF labels \in DOMAIN vec THEN AddFloat(vec[labels], v) ELSE v]

(***************************************************************************)
(* exporter.Export.  A GaugeVec is a function from label values to the     *)
(* value of the series; WithLabelValues(...).Set creates the series or     *)
(* overwrites its value.                                                   *)
(***************************************************************************)
SetGauge(vec, labels, v) ==
    [l \in (DOMAIN vec) \cup {labels} |-> IF l = labels THEN v ELSE vec[l]]

\* a line of the exporter's log: log.Debug() or log.Error(), with the account
LogLine(level, msg, id) == [level |-> level, msg |-> msg, ID |-> id]

\* one iteration of Export's loop that gives up the record at the first
\* field that does not parse
ExportItemOrGiveUp(e, config, accItem) ==
    IF IsAccountIgnored(config, accItem.ID)
    THEN [e EXCEPT !.log = @ \o <<LogLine("debug", "Skipping ignored account", accItem.ID)>>]
    ELSE LET accountName == GetAccountNameMapping(config, accItem.ID, accItem.Name)
             bal == ParseFloat(accItem.Balance)
             availBal == ParseFloat(accItem.AvailableBalance)
             labels4 == <<accItem.Org.Domain, accountName, accItem.ID, accItem.Currency>>
             labels3 == <<accItem.Org.Domain, accountName, accItem.ID>>
         IN  IF bal.err
             THEN [e EXCEPT !.log =
                     @ \o <<LogLine("error", "Could not parse balance", accItem.ID)>>]
             ELSE IF availBal.err
             THEN [e EXCEPT
                     !.balances = SetGauge(@, labels4, bal.val),
                     !.log = @ \o <<LogLine("error", "Could not parse available balance",
                                            accItem.ID)>>]
             ELSE [balances |-> SetGauge(e.balances, labels4, bal.val),
                   availableBalances |-> SetGauge(e.availableBalances, labels4, availBal.val),
                   last_updated |->
                     SetGauge(e.last_updated, labels3, FromInt(accItem.BalanceDate)),
                   log |-> e.log]

\* one iteration of Export's loop; e holds the three vectors and the log
ExportItem(e, config, accItem) ==
    IF IsAccountIgnored(config, accItem.ID)
    THEN [e EXCEPT !.log = @ \o <<LogLine("debug", "Skipping ignored account", accItem.ID)>>]
    ELSE LET accountName == GetAccountNameMapping(config, accItem.ID, accItem.Name)
             bal == ParseFloat(accItem.Balance)
             availBal == ParseFloat(accItem.AvailableBalance)
             labels4 == <<accItem.Org.Domain, accountName, accItem.ID, accItem.Currency>>
             labels3 == <<accItem.Org.Domain, accountName, accItem.ID>>
         IN  [balances |->
                IF bal.err THEN e.balances
                ELSE SetGauge(e.balances, labels4, bal.val),
              availableBalances |->
                IF availBal.err THEN e.availableBalances
                ELSE SetGauge(e.availableBalances, labels4, availBal.val),
              last_updated |->
                SetGauge(e.last_updated, labels3, FromInt(accItem.BalanceDate)),
              log |->
                e.log
                \o (IF bal.err
                    THEN <<LogLine("error", "Could not parse balance", accItem.ID)>>
                    ELSE <<>>)
                \o (IF availBal.err
                    THEN <<LogLine("error", "Could not parse available balance",
                                   accItem.ID)>>
                    ELSE <<>>)]

RECURSIVE ExportFrom(_, _, _, _)
ExportFrom(e, config, accs, i) ==
    IF i > Len(accs) THEN e
    ELSE ExportFrom(ExportItem(e, config, accs[i]), config, accs, i + 1)

\* Export that first resets the three vectors
ExportAfterReset(g, config, accs) ==
    ExportFrom([balances |-> <<>>, availableBalances |-> <<>>, last_updated |-> <<>>,
                log |-> <<>>],
               config, accs, 1)

\* Export on the vectors g: the vectors afterwards and the errors logged
Export(g, config, accs) ==
    ExportFrom([balances |-> g.balances,
                availableBalances |-> g.availableBalances,
                last_updated |-> g.last_updated,
                log |-> <<>>],
               config, accs, 1)

Vectors(e) ==
    [balances |-> e.balances, availableBalances |-> e.availableBalances,
     last_updated |-> e.last_updated]

(***************************************************************************)
(* main, lines 274-275: exporter.NewExporter and startExporterServer.      *)
(***************************************************************************)
StartExporter ==
    /\ pc = "main"
    /\ gauges' = NoGauges
    /\ httpServ' = TRUE
    /\ pc' = "poll"
    /\ UNCHANGED <<args, run, fatalMsg, fatalErr, accessUrl, storedAccessUrl,
                   newAccessUrl, resp, saveErr, client, updateInterval, accountMappings,
                   exportLog, secret, volatileFile, mappingsFile, calls>>

\* the server goroutine, lines 263-268: ListenAndServe returns an error
ServerError ==
    /\ pc = "poll"
    /\ httpServ
    /\ Fatal("HTTP Server errored out", "listen failed")
    /\ UNCHANGED <<args, run, accessUrl, storedAccessUrl, newAccessUrl, resp, saveErr,
                   client, updateInterval, accountMappings, httpServ, gauges,
                   exportLog, secret, volatileFile, mappingsFile, calls>>

(***************************************************************************)
(* main, lines 278-294: one iteration of the poll loop, sleep included.    *)
(***************************************************************************)
\* client.GetAccounts fails and the error is fatal
PollFetchErrorFatal ==
    /\ pc = "poll"
    /\ calls.getAccounts < MaxPolls
    /\ calls' = Called("getAccounts")
    /\ Fatal("failed to fetch accounts", "fetch error")
    /\ UNCHANGED <<args, run, accessUrl, storedAccessUrl,
                   newAccessUrl, resp, saveErr, client, updateInterval, accountMappings,
                   httpServ, gauges, exportLog, secret, volatileFile, mappingsFile>>

\* client.GetAccounts fails and the credentials are resolved again
PollFetchErrorResolveAgain ==
    /\ pc = "poll"
    /\ calls.getAccounts < MaxPolls
    /\ calls' = Called("getAccounts")
    /\ pc' = "parseConfig"
    /\ UNCHANGED <<args, run, fatalMsg, fatalErr, accessUrl, storedAccessUrl,
                   newAccessUrl, resp, saveErr, client, updateInterval, accountMappings,
                   httpServ, gauges, exportLog, secret, volatileFile, mappingsFile>>

\* client.GetAccounts fails: nothing is exported
PollFetchError ==
    /\ pc = "poll"
    /\ calls.getAccounts < MaxPolls
    /\ calls' = Called("getAccounts")
    /\ UNCHANGED <<args, run, pc, fatalMsg, fatalErr, accessUrl, storedAccessUrl,
                   newAccessUrl, resp, saveErr, client, updateInterval, accountMappings,
                   httpServ, gauges, exportLog, secret, volatileFile, mappingsFile>>

\* client.GetAccounts returns snap, which is exported
PollExport(snap) ==
    /\ pc = "poll"
    /\ calls.getAccounts < MaxPolls
    /\ LET e == Export(gauges, accountMappings, snap)
       IN  /\ gauges' = Vectors(e)
           /\ exportLog' = e.log
    /\ calls' = [calls EXCEPT !.getAccounts = @ + 1, !.export = @ + 1]
    /\ UNCHANGED <<args, run, pc, fatalMsg, fatalErr, accessUrl, storedAccessUrl,
                   newAccessUrl, resp, saveErr, client, updateInterval, accountMappings,
                   httpServ, secret, volatileFile, mappingsFile>>

(***************************************************************************)
(* The process is started again with the same command line, after it has   *)
(* exited or while it polls.  The environment stays as the last run left   *)
(* it.                                                                     *)
(***************************************************************************)
Restart ==
    /\ pc \in {"exited", "poll"}
    /\ run < MaxRuns
    /\ run' = run + 1
    /\ pc' = "parseConfig"
    /\ fatalMsg' = ""
    /\ fatalErr' = ""
    /\ accessUrl' = args.accessUrl
    /\ storedAccessUrl' = ""
    /\ newAccessUrl' = ""
    /\ resp' = NoResp
    /\ saveErr' = ""
    /\ client' = ""
    /\ updateInterval' = 0
    /\ accountMappings' = EmptyPolicy
    /\ httpServ' = FALSE
    /\ gauges' = NoGauges
    /\ exportLog' = <<>>
    /\ calls' = NoCalls
    /\ UNCHANGED <<args, secret, volatileFile, mappingsFile>>

(***************************************************************************)
(* Inputs: command lines, states of the environment, account snapshots.    *)
(***************************************************************************)
ArgsOf(tokens, urls, files, names, namespaces, mappings, durations) ==
    [setupToken : tokens, accessUrl : urls, accessUrlVolatileFile : files,
     secretName : names, secretNamespace : namespaces,
     accountMappingsFile : mappings, duration : durations]

AllArgs ==
    ArgsOf(SetupTokens, {"", "https://e"}, {"", "/f"}, {"", "sf"}, {"", "ns"},
           {"", "/m"}, {"1h0m0s", "soon"})

Secrets ==
    { NoSecret, NilDataSecret,
      SecretWith({"other"}, "", "x"),
      SecretWith({"access_url", "other"}, "https://s", "x"),
      SecretWith({"access_url"}, "http://s", ""),
      SecretWith({"access_url"}, "error: denied", ""),
      SecretWith({"access_url"}, "", "") }

FileWith(content) == [exists |-> TRUE, content |-> content]

VolatileFiles ==
    { NoFile, FileWith(""), FileWith("https://f"), FileWith("HTTPS://f"),
      FileWith("https://f\n") }

PolicyScenario ==
    [Mappings |-> <<[AccountID |-> "A1", CustomName |-> "Checking"]>>,
     IgnoreList |-> <<"A2">>]

PolicyDuplicate ==
    [Mappings |-> <<[AccountID |-> "A1", CustomName |-> "First"],
                    [AccountID |-> "A1", CustomName |-> "Second"]>>,
     IgnoreList |-> <<>>]

MappingsFileWith(config) ==
    [exists |-> TRUE, valid |-> TRUE, config |-> config]

MalformedMappingsFile == [exists |-> TRUE, valid |-> FALSE, config |-> EmptyPolicy]

Account(id, balance, availableBalance, balanceDate) ==
    [ID |-> id, Name |-> "Main", Org |-> [Domain |-> "bank.example"],
     Currency |-> "USD", Balance |-> balance,
     AvailableBalance |-> availableBalance, BalanceDate |-> balanceDate]

Items ==
    { Account("A1", "100.50", "90.00", 1700000000),
      Account("A1", "7", "N/A", 1700003600),
      Account("A1", "N/A", "90.00", 1700003600),
      Account("A2", "N/A", "16777217", 1700003600) }

\* the sequences over S of length at most n
SeqsUpTo(S, n) == UNION {[1..k -> S] : k \in 0..n}

Snapshots == SeqsUpTo(Items, MaxRecords)

FewSnapshots ==
    { <<Account("A1", "100.50", "90.00", 1700000000)>>,
      <<Account("A2", "N/A", "16777217", 1700003600)>> }

InitFrom(argSet, secrets, files, mappingsFiles) ==
    /\ args \in argSet
    /\ run = 1
    /\ secret \in (IF args.secretName # "" /\ args.secretNamespace # ""
                   THEN secrets ELSE {NoSecret})
    /\ volatileFile \in (IF args.accessUrlVolatileFile # "" THEN files ELSE {NoFile})
    /\ mappingsFile \in (IF args.accountMappingsFile # ""
                         THEN mappingsFiles ELSE {NoMappingsFile})
    /\ ProcessStart(args)

(***************************************************************************)
(* Spec: every command line and environment, with few snapshots.           *)
(***************************************************************************)
Init ==
    InitFrom(AllArgs, Secrets, VolatileFiles,
             {NoMappingsFile, MalformedMappingsFile, MappingsFileWith(PolicyScenario)})

Next ==
    \/ InitSecret
    \/ ReadVolatileFile
    \/ CheckCredentials
    \/ CreateClient
    \/ ExchangeToken
    \/ SaveSecret
    \/ CreateClientFromToken
    \/ LoadMappings
    \/ StartExporter
    \/ ServerError
    \/ PollFetchError
    \/ \E snap \in FewSnapshots : PollExport(snap)
    \/ Restart

Spec == Init /\ [][Next]_vars

(***************************************************************************)
(* SpecExport: one run of the process under few command lines, with every  *)
(* mapping policy and snapshot.  The                                       *)
(* command line that exchanges a token comes with a malformed mappings     *)
(* file, so its runs end before the poll loop.                             *)
(***************************************************************************)
InitExport ==
    \/ InitFrom(ArgsOf({""}, {"https://e"}, {""}, {""}, {""}, {"", "/m"}, {"1h0m0s"}),
                {NoSecret}, {NoFile},
                {MappingsFileWith(PolicyScenario), MappingsFileWith(PolicyDuplicate)})
    \/ InitFrom(ArgsOf({"aHR0cDovL2M="}, {""}, {"/f"}, {"sf"}, {"ns"}, {"/m"}, {"1h0m0s"}),
                {SecretWith({"other"}, "", "x")}, {FileWith("")},
                {MalformedMappingsFile})

NextExport ==
    \/ InitSecret
    \/ ReadVolatileFile
    \/ CheckCredentials
    \/ CreateClient
    \/ ExchangeToken
    \/ SaveSecret
    \/ CreateClientFromToken
    \/ LoadMappings
    \/ StartExporter
    \/ ServerError
    \/ PollFetchError
    \/ \E snap \in Snapshots : PollExport(snap)

SpecExport == InitExport /\ [][NextExport]_vars

(***************************************************************************)
(* Positions of a run.                                                     *)
(***************************************************************************)
\* past the volatile-file step, still running
AfterFile == {"credentials", "client", "saveSecret", "newClient", "mappings", "main", "poll"}

\* the client has been built: credential resolution has ended well
Resolved == {"mappings", "main", "poll"}

\* the token exchange got HTTP 200 and its body
Exchanged200 == resp.kind = "response" /\ resp.status = StatusOK

\* the value of the first source, in the order store, volatile file, explicit
\* URL, setup token, that yielded one
FirstYielded ==
    IF storedAccessUrl # "" THEN storedAccessUrl
    ELSE IF accessUrlVolatileFile # "" /\ accessUrl # "" THEN accessUrl
    ELSE IF args.accessUrl # "" THEN args.accessUrl
    ELSE newAccessUrl

\* the save step of the token branch is over
AfterSave == pc \notin {"parseConfig", "volatileFile", "credentials", "client", "saveSecret"}

\* the secret holds url in access_url
SecretHolds(url) ==
    /\ secret.exists
    /\ "access_url" \in secret.keys
    /\ secret.data["access_url"] = url

\* the token exchange ended in a transport error or a status other than 200
ExchangeFailed ==
    \/ resp.kind = "transportError"
    \/ resp.kind \in {"response", "readError"} /\ resp.status # StatusOK

\* the secret holds an access_url that starts with http:// or https://
StoreHoldsValidUrl ==
    /\ secret.exists
    /\ "access_url" \in secret.keys
    /\ \/ HasPrefix(secret.data["access_url"], "http://")
       \/ HasPrefix(secret.data["access_url"], "https://")

(***************************************************************************)
(* C1.  The access URL that resolution ends with is the value of the first *)
(* source, in the order store, volatile file, explicit URL, setup token,   *)
(* that yields one: a value the store yielded is still the access URL      *)
(* after the volatile-file step, and the client is built with the first    *)
(* value yielded.                                                          *)
(***************************************************************************)
C1_FirstSourceWins ==
    /\ (pc \in AfterFile /\ storedAccessUrl # "") => accessUrl = storedAccessUrl
    /\ pc \in Resolved => client = FirstYielded

(***************************************************************************)
(* C2.  As claimed: once the exchange has answered 200 and the save step   *)
(* is over, the exchanged URL is the response body and, with a store       *)
(* configured, the secret holds that body in access_url, whatever the      *)
(* secret was before.                                                      *)
(***************************************************************************)
C2_StoreAlwaysHoldsBody ==
    (Exchanged200 /\ AfterSave) =>
        /\ newAccessUrl = resp.body
        /\ SecretConfigured => SecretHolds(resp.body)

(***************************************************************************)
(* C2, amended.  Once the exchange has answered 200 and the save step is   *)
(* over, the exchanged URL is the response body (and the client, once      *)
(* built, is built with it); with a store configured, the secret holds     *)
(* that body in access_url if saveAccessUrlToSecret returned no error,     *)
(* that is if the record existed and both its Get and its Update           *)
(* succeeded.                                                              *)
(***************************************************************************)
C2_StoreHoldsBodyWhenSaved ==
    (Exchanged200 /\ AfterSave) =>
        /\ newAccessUrl = resp.body
        /\ client \in {"", resp.body}
        /\ (SecretConfigured /\ saveErr = "") => SecretHolds(resp.body)

\* the secret had another field and now holds the exchanged URL as well
C2_Witness ==
    /\ Exchanged200
    /\ pc = "newClient"
    /\ SecretConfigured
    /\ saveErr = ""
    /\ secret.keys = {"access_url", "other"}
    /\ secret.data["access_url"] = "https://a"

(***************************************************************************)
(* C3.  A token exchange that ends in a transport error or in a status     *)
(* other than 200 ends the run with a fatal error: no Update of the secret *)
(* is attempted, no client is built, the metrics server is not started and *)
(* no account fetch is made.                                               *)
(***************************************************************************)
C3_FailedExchangeIsFatal ==
    ExchangeFailed =>
        /\ pc = "exited"
        /\ fatalMsg = "failed to create client from setup token"
        /\ calls.secretUpdate = 0
        /\ calls.secretGet <= 1
        /\ client = ""
        /\ ~httpServ
        /\ calls.getAccounts = 0

\* a 403 with a store configured, whose record exists
C3_Witness ==
    /\ resp.kind = "response"
    /\ resp.status = 403
    /\ resp.body = "Forbidden"
    /\ SecretConfigured
    /\ secret.exists
    /\ pc = "exited"

(***************************************************************************)
(* C4.  The step that reads the store: when the secret holds no access_url *)
(* that starts with http:// or https:// (no record, no data, no field,     *)
(* another text), the read yields nothing; whenever the read yields        *)
(* nothing (a failed Get included) the step leaves accessUrl as it was and *)
(* goes on to the volatile-file step, as when no store is configured; a    *)
(* value it yields is the record's.  The only exit of this step is the     *)
(* failure to build the Kubernetes client, before any read.                *)
(***************************************************************************)
C4_Step ==
    (pc = "parseConfig" /\ pc' # "parseConfig") =>
        /\ ~StoreHoldsValidUrl => storedAccessUrl' = ""
        /\ storedAccessUrl' # "" =>
              /\ SecretConfigured
              /\ storedAccessUrl' = secret.data["access_url"]
              /\ accessUrl' = storedAccessUrl'
        /\ storedAccessUrl' = "" => accessUrl' = accessUrl
        /\ \/ /\ pc' = "volatileFile"
              /\ fatalMsg' = ""
              /\ calls'.secretGet = IF SecretConfigured THEN 1 ELSE 0
           \/ /\ pc' = "exited"
              /\ fatalMsg' = "failed to initialize kubernetes client"
              /\ SecretConfigured
              /\ calls'.secretGet = 0
        /\ UNCHANGED <<secret, volatileFile, client, newAccessUrl>>

\* C4: every step that reads the store treats an invalid or missing value
\* as absent and goes on to the next source
C4_InvalidStoreValueIsAbsent == [][C4_Step]_vars

\* the secret's access_url is an error text, and the read went on without it
C4_Witness ==
    /\ pc = "volatileFile"
    /\ calls.secretGet = 1
    /\ secret.data["access_url"] = "error: denied"
    /\ storedAccessUrl = ""
    /\ accessUrl = args.accessUrl

(***************************************************************************)
(* C5.  Volatile-file consumption is exactly-once.  After a step, a run    *)
(* whose resolution got past the volatile-file step with the path          *)
(* configured has left no file; no step brings a missing file back; and    *)
(* the volatile-file step of a run that finds the path configured and the  *)
(* file gone (a restart after the file was consumed) ends the run with     *)
(* the fatal read error, yielding no access URL.                           *)
(***************************************************************************)
C5_Step ==
    /\ (accessUrlVolatileFile # "" /\ pc' \in AfterFile) => ~volatileFile'.exists
    /\ ~volatileFile.exists => ~volatileFile'.exists
    /\ (pc = "volatileFile" /\ pc' # "volatileFile"
        /\ accessUrlVolatileFile # "" /\ ~volatileFile.exists) =>
            /\ pc' = "exited"
            /\ fatalMsg' = "failed to read AccessUrl config"
            /\ fatalErr' = "error reading AccessUrl path"
            /\ accessUrl' = ""
            /\ client' = ""

\* C5: every step keeps the volatile file consumed exactly once
C5_VolatileFileConsumedOnce == [][C5_Step]_vars

\* the second run dies on the read: the first one consumed the (empty) file,
\* then exchanged the token and saved the URL into the secret
C5_Witness ==
    /\ run = 2
    /\ accessUrlVolatileFile # ""
    /\ ~volatileFile.exists
    /\ SecretHolds("https://a")
    /\ pc = "exited"
    /\ fatalErr = "error reading AccessUrl path"

(***************************************************************************)
(* C6.  A run that is past the check of the credential sources with no     *)
(* access URL and no setup token has exited with a fatal error (the        *)
(* missing-credential one, unless the store or file step was fatal         *)
(* before), without starting the metrics server, posting to a claim URL    *)
(* or fetching accounts.                                                   *)
(***************************************************************************)
C6_NoCredentialIsFatal ==
    (accessUrl = "" /\ setupToken = ""
     /\ pc \notin {"parseConfig", "volatileFile", "credentials"}) =>
        /\ pc = "exited"
        /\ fatalMsg \in {"Access URL or Setup Token required",
                         "failed to read AccessUrl config",
                         "failed to initialize kubernetes client"}
        /\ fatalErr = "" <=> fatalMsg = "Access URL or Setup Token required"
        /\ ~httpServ
        /\ client = ""
        /\ calls.claimPost = 0
        /\ calls.getAccounts = 0

\* store and file were both consulted and neither yielded a URL
C6_Witness ==
    /\ pc = "exited"
    /\ fatalMsg = "Access URL or Setup Token required"
    /\ calls.secretGet = 1
    /\ calls.fileRemove = 1
    /\ args.accessUrl = ""
    /\ ~volatileFile.exists

(***************************************************************************)
(* C7.  A run that is past the volatile-file step with an access URL at    *)
(* hand and a setup token configured never claims the token: no POST is    *)
(* sent, the secret is not updated, and the client, once built, is built   *)
(* with that access URL.                                                   *)
(***************************************************************************)
C7_TokenNotClaimed ==
    (accessUrl # "" /\ setupToken # "" /\ pc \notin {"parseConfig", "volatileFile"}) =>
        /\ calls.claimPost = 0
        /\ resp = NoResp
        /\ calls.secretUpdate = 0
        /\ pc \in Resolved => client = accessUrl

\* polling on the URL read from the volatile file, the token left alone
C7_Witness ==
    /\ pc = "poll"
    /\ setupToken = "aHR0cDovL2M="
    /\ args.accessUrl = ""
    /\ accessUrl = "https://f"
    /\ client = "https://f"
    /\ calls.getAccounts > 0

(***************************************************************************)
(* C8.  Export is idempotent: from the gauges of every polling state, for  *)
(* every snapshot, under the policy loaded, exporting the snapshot a       *)
(* second time right after the first leaves the three families with the    *)
(* same series and the same values as the first export did.                *)
(***************************************************************************)
C8_ExportIdempotent ==
    pc = "poll" =>
        \A snap \in Snapshots :
            LET once == Vectors(Export(gauges, accountMappings, snap))
            IN  Vectors(Export(once, accountMappings, snap)) = once

\* two polls of the same two records of one account have left what one poll
\* leaves: the later record's balance date and the one balance that parsed
C8_Witness ==
    /\ pc = "poll"
    /\ calls.export = 2
    /\ accountMappings = PolicyScenario
    /\ LET snap == << Account("A1", "100.50", "90.00", 1700000000),
                      Account("A1", "7", "N/A", 1700003600) >>
           once == Vectors(Export(NoGauges, accountMappings, snap))
       IN  /\ gauges = once
           /\ gauges = Vectors(Export(once, accountMappings, snap))
           /\ gauges.balances[<<"bank.example", "Checking", "A1", "USD">>]
                = ParseFloat("7").val
           /\ gauges.availableBalances[<<"bank.example", "Checking", "A1", "USD">>]
                = ParseFloat("90.00").val

\* the account IDs of the policy's ignore list
IgnoredIDs == {accountMappings.IgnoreList[i] : i \in 1..Len(accountMappings.IgnoreList)}

(***************************************************************************)
(* C9.  In every state, no series of the balance, available_balance or     *)
(* last_updated family carries an account_id of the ignore list.           *)
(***************************************************************************)
C9_IgnoredNeverExported ==
    /\ \A l \in DOMAIN gauges.balances : l[3] \notin IgnoredIDs
    /\ \A l \in DOMAIN gauges.availableBalances : l[3] \notin IgnoredIDs
    /\ \A l \in DOMAIN gauges.last_updated : l[3] \notin IgnoredIDs

\* after two polls, the last of which skipped a record of the ignored A2,
\* the only series are those of A1
C9_Witness ==
    /\ pc = "poll"
    /\ calls.export = 2
    /\ "A2" \in IgnoredIDs
    /\ \E k \in 1..Len(exportLog) :
          exportLog[k] = LogLine("debug", "Skipping ignored account", "A2")
    /\ DOMAIN gauges.balances = {<<"bank.example", "Checking", "A1", "USD">>}
    /\ DOMAIN gauges.last_updated = {<<"bank.example", "Checking", "A1">>}

\* seq without its i-th record
RemoveAt(seq, i) == SubSeq(seq, 1, i - 1) \o SubSeq(seq, i + 1, Len(seq))

\* the labels of a record's series under the policy loaded
SeriesLabels3(accItem) ==
    <<accItem.Org.Domain,
      GetAccountNameMapping(accountMappings, accItem.ID, accItem.Name), accItem.ID>>

SeriesLabels4(accItem) == SeriesLabels3(accItem) \o <<accItem.Currency>>

\* after differs from before in the series labels, set to v, and in nothing else
IsSet(after, before, labels, v) ==
    /\ DOMAIN after = DOMAIN before \cup {labels}
    /\ after[labels] = v
    /\ \A l \in DOMAIN before \ {labels} : after[l] = before[l]

\* the number of error lines msg logged for the account id
ErrorsFor(log, msg, id) ==
    Cardinality({k \in 1..Len(log) : log[k] = LogLine("error", msg, id)})

\* the i-th record of snap is exported and one of its two fields (failed) does
\* not parse: that family is left as the records before it left it, the
\* other field (if it parses) and last_updated are set, one error is logged
\* for the failed field, and the export of the whole snapshot leaves the
\* failed family as the snapshot without the record does, and the other
\* families as the snapshot does with a number in the failed field
FieldIsolated(snap, i, failed) ==
    LET r == snap[i]
        other == IF failed = "Balance" THEN "AvailableBalance" ELSE "Balance"
        family(e, f) == IF f = "Balance" THEN e.balances ELSE e.availableBalances
        msg(f) == IF f = "Balance" THEN "Could not parse balance"
                  ELSE "Could not parse available balance"
        before == Export(gauges, accountMappings, SubSeq(snap, 1, i - 1))
        after == Export(Vectors(before), accountMappings, <<r>>)
        full == Export(gauges, accountMappings, snap)
        without == Export(gauges, accountMappings, RemoveAt(snap, i))
        healed == Export(gauges, accountMappings, [snap EXCEPT ![i][failed] = "7"])
        otherVal == ParseFloat(r[other])
    IN  /\ family(after, failed) = family(before, failed)
        /\ IF otherVal.err
           THEN family(after, other) = family(before, other)
           ELSE IsSet(family(after, other), family(before, other),
                      SeriesLabels4(r), otherVal.val)
        /\ IsSet(after.last_updated, before.last_updated,
                 SeriesLabels3(r), FromInt(r.BalanceDate))
        /\ ErrorsFor(after.log, msg(failed), r.ID) = 1
        /\ Len(after.log) = IF otherVal.err THEN 2 ELSE 1
        /\ family(full, failed) = family(without, failed)
        /\ family(full, other) = family(healed, other)
        /\ full.last_updated = healed.last_updated
        /\ Len(full.log) = Len(without.log) + Len(after.log)

(***************************************************************************)
(* C10.  Per-record, per-field error isolation in Export: from the gauges  *)
(* of every polling state, for every snapshot and every record of it that  *)
(* is not ignored and whose balance does not parse, the balance series     *)
(* keep their prior state while available_balance (if it parses) and       *)
(* last_updated are set, exactly one error is logged for the balance, and  *)
(* the other records, before and after, are exported as if the failure     *)
(* had not happened; symmetrically for the available balance.              *)
(***************************************************************************)
C10_FieldErrorIsolated ==
    pc = "poll" =>
        \A snap \in Snapshots : \A i \in 1..Len(snap) :
            snap[i].ID \notin IgnoredIDs =>
                /\ ParseFloat(snap[i].Balance).err => FieldIsolated(snap, i, "Balance")
                /\ ParseFloat(snap[i].AvailableBalance).err =>
                      FieldIsolated(snap, i, "AvailableBalance")

\* the second poll brought a record of A1 whose balance did not parse: the
\* balance series still has the value of the first poll, available_balance
\* and last_updated have those of the second, and one error was logged
C10_Witness ==
    /\ pc = "poll"
    /\ calls.export = 2
    /\ exportLog = <<LogLine("error", "Could not parse balance", "A1")>>
    /\ gauges.balances = (<<"bank.example", "Main", "A1", "USD">> :> ParseFloat("100.50").val)
    /\ gauges.availableBalances
         = (<<"bank.example", "Main", "A1", "USD">> :> ParseFloat("90.00").val)
    /\ gauges.last_updated = (<<"bank.example", "Main", "A1">> :> FromInt(1700003600))

\* the display name of a record under the policy loaded: the custom name of
\* the first mapping of its identifier, or its own name
DisplayName(accItem) ==
    LET ms == accountMappings.Mappings
    IN  IF \A k \in 1..Len(ms) : ms[k].AccountID # accItem.ID THEN accItem.Name
        ELSE LET first == CHOOSE k \in 1..Len(ms) :
                             /\ ms[k].AccountID = accItem.ID
                             /\ \A j \in 1..(k - 1) : ms[j].AccountID # accItem.ID
             IN  ms[first].CustomName

\* no record after the i-th has the identifier of the i-th
LastOfItsID(snap, i) == \A j \in (i + 1)..Len(snap) : snap[j].ID # snap[i].ID

\* vec has the series labels, with the value v
Holds(vec, labels, v) == labels \in DOMAIN vec /\ vec[labels] = v

(***************************************************************************)
(* C11.  From the gauges of every polling state, for every snapshot and    *)
(* every record of it that is not ignored (and is the only or last record  *)
(* of its identifier, identifiers being unique within a snapshot): after   *)
(* Export the balance and available_balance series keyed by (domain,       *)
(* displayName, account_id, currency) hold the parsed balance and          *)
(* available balance, where they parse, and the last_updated series keyed  *)
(* by (domain, displayName, account_id) holds the timestamp; displayName   *)
(* is the custom name of the first mapping of the identifier, or the       *)
(* record's own name.                                                      *)
(***************************************************************************)
C11_SeriesHoldRecord ==
    pc = "poll" =>
        \A snap \in Snapshots : \A i \in 1..Len(snap) :
            LET r == snap[i]
                e == Export(gauges, accountMappings, snap)
                l3 == <<r.Org.Domain, DisplayName(r), r.ID>>
                l4 == <<r.Org.Domain, DisplayName(r), r.ID, r.Currency>>
                bal == ParseFloat(r.Balance)
                availBal == ParseFloat(r.AvailableBalance)
            IN  (r.ID \notin IgnoredIDs /\ LastOfItsID(snap, i)) =>
                    /\ ~bal.err => Holds(e.balances, l4, bal.val)
                    /\ ~availBal.err => Holds(e.availableBalances, l4, availBal.val)
                    /\ Holds(e.last_updated, l3, FromInt(r.BalanceDate))

\* A1 is mapped twice and was exported under the first custom name, with
\* 100.50 rounded to float32 and the timestamp of the record
C11_Witness ==
    /\ pc = "poll"
    /\ calls.export = 1
    /\ accountMappings = PolicyDuplicate
    /\ gauges.balances = (<<"bank.example", "First", "A1", "USD">> :> [neg |-> FALSE, mant |-> 201, exp |-> -1])
    /\ gauges.availableBalances
         = (<<"bank.example", "First", "A1", "USD">> :> [neg |-> FALSE, mant |-> 45, exp |-> 1])
    /\ gauges.last_updated = (<<"bank.example", "First", "A1">> :> FromInt(1700000000))

(***************************************************************************)
(* C12.  The step that loads the mapping policy: with an empty path or a   *)
(* path that names no file it yields the empty policy (no mappings,        *)
(* nothing ignored) without error and the run goes on; with a file that    *)
(* exists and does not parse it ends the run with a fatal error, the       *)
(* metrics server not started and no account fetched.                      *)
(***************************************************************************)
C12_Step ==
    (pc = "mappings" /\ pc' # "mappings") =>
        /\ (accountMappingsFile = "" \/ ~mappingsFile.exists) =>
              /\ pc' = "main"
              /\ accountMappings' = [Mappings |-> <<>>, IgnoreList |-> <<>>]
              /\ fatalMsg' = ""
              /\ fatalErr' = ""
        /\ (accountMappingsFile # "" /\ mappingsFile.exists /\ ~mappingsFile.valid) =>
              /\ pc' = "exited"
              /\ fatalMsg' = "failed to load account mappings"
              /\ fatalErr' \in {"error parsing account mappings JSON",
                                "error reading account mappings file"}
              /\ ~httpServ'
              /\ calls'.getAccounts = 0
              /\ calls'.export = 0

\* C12: every step that loads the mapping policy yields the empty policy for
\* an empty or dangling path and is fatal for a file that does not parse
C12_MappingsLoad == [][C12_Step]_vars

\* the path names a file that does not exist and the run polls with the
\* empty policy
C12_Witness ==
    /\ accountMappingsFile = "/m"
    /\ ~mappingsFile.exists
    /\ calls.loadMappings = 1
    /\ pc = "poll"
    /\ accountMappings = EmptyPolicy
    /\ calls.export > 0

\* a step of the poll loop whose account fetch fails
FailedFetchStep ==
    /\ pc = "poll"
    /\ calls'.getAccounts = calls.getAccounts + 1
    /\ calls'.export = calls.export

\* an iteration of the poll loop can start: a fetch that fails or one that
\* brings a snapshot
CanPoll ==
    /\ ENABLED PollFetchError
    /\ ENABLED (\E snap \in FewSnapshots : PollExport(snap))

C13_Step ==
    FailedFetchStep =>
        /\ gauges' = gauges
        /\ exportLog' = exportLog
        /\ pc' = "poll"
        /\ fatalMsg' = "" /\ fatalErr' = ""
        /\ httpServ'
        /\ client' = client

\* some fetch of this run has failed and the run still polls
C13_StillPolls ==
    (pc = "poll" /\ calls.getAccounts > calls.export /\ calls.getAccounts < MaxPolls)
        => CanPoll

(***************************************************************************)
(* C13.  In the poll loop, an iteration whose account fetch fails exports  *)
(* nothing and leaves every gauge series and value as it was, the process  *)
(* does not exit, and the loop goes on: after a failed fetch the next      *)
(* iteration fetches again.                                                *)
(***************************************************************************)
C13_FailedFetchSkipped == [][C13_Step]_vars /\ []C13_StillPolls

\* two iterations, one whose fetch failed and one that exported, in either
\* order: the series of the export are there
C13_Witness ==
    /\ pc = "poll"
    /\ calls.getAccounts = 2
    /\ calls.export = 1
    /\ gauges.last_updated # <<>>
    /\ httpServ

\* the series of before are series of after, and one whose value differs has
\* the value of a record of snap that is not ignored and produces its labels:
\* field is "Balance", "AvailableBalance" or "BalanceDate"
SeriesKept(before, after, snap, field) ==
    \A l \in DOMAIN before :
        /\ l \in DOMAIN after
        /\ after[l] # before[l] =>
              \E i \in 1..Len(snap) :
                  LET r == snap[i]
                      l3 == <<r.Org.Domain, DisplayName(r), r.ID>>
                  IN  /\ r.ID \notin IgnoredIDs
                      /\ l = (IF field = "BalanceDate" THEN l3 ELSE l3 \o <<r.Currency>>)
                      /\ IF field = "BalanceDate"
                         THEN after[l] = FromInt(r.BalanceDate)
                         ELSE /\ ~ParseFloat(r[field]).err
                              /\ after[l] = ParseFloat(r[field]).val

\* whatever snapshot the next export brings, no series is deleted, and a
\* value changes only to that of a record of the snapshot
C14_ExportKeeps ==
    pc = "poll" =>
        \A snap \in Snapshots :
            LET e == Export(gauges, accountMappings, snap)
            IN  /\ SeriesKept(gauges.balances, e.balances, snap, "Balance")
                /\ SeriesKept(gauges.availableBalances, e.availableBalances, snap,
                              "AvailableBalance")
                /\ SeriesKept(gauges.last_updated, e.last_updated, snap, "BalanceDate")

\* a step keeps every series, and only a step that exports changes a value
C14_Step ==
    /\ DOMAIN gauges.balances \subseteq DOMAIN gauges'.balances
    /\ DOMAIN gauges.availableBalances \subseteq DOMAIN gauges'.availableBalances
    /\ DOMAIN gauges.last_updated \subseteq DOMAIN gauges'.last_updated
    /\ calls'.export = calls.export => gauges' = gauges

(***************************************************************************)
(* C14.  Gauge series are never deleted: a series that exists exists in    *)
(* every later state of the process, and its value changes only when an    *)
(* export processes a record that is not ignored, produces the same label  *)
(* set and has a value that parses; the series of an account that later    *)
(* snapshots do not report keeps its last value.                           *)
(***************************************************************************)
C14_SeriesNeverDeleted == [][C14_Step]_vars /\ []C14_ExportKeeps

\* the second poll reported A2 only (its balance did not parse): the series
\* of A1 are those of the first poll
C14_Witness ==
    /\ pc = "poll"
    /\ calls.export = 2
    /\ accountMappings = PolicyDuplicate
    /\ exportLog = <<LogLine("error", "Could not parse balance", "A2")>>
    /\ gauges.balances = (<<"bank.example", "First", "A1", "USD">> :> ParseFloat("100.50").val)
    /\ DOMAIN gauges.availableBalances
         = {<<"bank.example", "First", "A1", "USD">>, <<"bank.example", "Main", "A2", "USD">>}
    /\ gauges.last_updated[<<"bank.example", "First", "A1">>] = FromInt(1700000000)

(***************************************************************************)
(* C15.  A run whose token exchange succeeded and whose save to the        *)
(* configured store failed (on the Get or on the Update) does not exit     *)
(* because of it: it goes on to build the client, which is built with the  *)
(* exchanged access URL held in memory, and every account fetch is made    *)
(* with that client; if the run has exited, it is on the client, the       *)
(* mapping policy or the metrics server.                                   *)
(***************************************************************************)
C15_SaveFailureNotFatal ==
    saveErr # "" =>
        /\ SecretConfigured
        /\ Exchanged200
        /\ newAccessUrl = resp.body
        /\ pc \in {"newClient", "mappings", "main", "poll", "exited"}
        /\ pc \in {"mappings", "main", "poll"} => client = resp.body
        /\ calls.getAccounts > 0 => client = resp.body
        /\ pc = "exited" => fatalMsg \in {"failed to initialize simplefin client",
                                          "failed to load account mappings",
                                          "HTTP Server errored out"}

\* the Update failed, and the run polls with the exchanged URL
C15_Witness ==
    /\ saveErr = "failed to update secret with access URL"
    /\ ~SecretHolds("https://a")
    /\ pc = "poll"
    /\ client = "https://a"
    /\ calls.getAccounts > 0

\* with both a store and a volatile file configured, once the store read
\* has yielded a valid access URL a step neither reads nor removes the file
C16_Step ==
    (SecretConfigured /\ accessUrlVolatileFile # "" /\ storedAccessUrl # "") =>
        /\ volatileFile' = volatileFile
        /\ calls'.fileRead = 0
        /\ calls'.fileRemove = 0

(***************************************************************************)
(* C16.  As claimed: when a store and a volatile file path are both        *)
(* configured and the store read yields a valid access URL, the volatile   *)
(* file is not consulted: it is neither read nor deleted, and it still     *)
(* exists after resolution.                                                *)
(***************************************************************************)
C16_FileNotConsulted == [][C16_Step]_vars

\* the calls of credential resolution and of the policy load made so far
ResolutionCalls(c) ==
    <<c.k8sInit, c.secretGet, c.secretUpdate, c.fileRead, c.fileRemove, c.claimPost,
      c.loadMappings>>

C17_Step ==
    /\ (pc # "poll" /\ pc' = "poll") => (pc = "main" /\ calls.getAccounts = 0)
    /\ (calls.getAccounts > 0 /\ run' = run) =>
          /\ pc' \in {"poll", "exited"}
          /\ ResolutionCalls(calls') = ResolutionCalls(calls)
          /\ secret' = secret
          /\ volatileFile' = volatileFile
          /\ accessUrl' = accessUrl
          /\ client' = client
          /\ accountMappings' = accountMappings

(***************************************************************************)
(* C17.  A process enters the poll loop at most once, from main, before    *)
(* any fetch; once the first account fetch has been issued, no step of     *)
(* that process reads the store, reads or removes the volatile file,       *)
(* posts to the claim URL, writes the store or loads the mapping policy,   *)
(* whatever fetch or export failures occur: it stays in the loop or exits. *)
(***************************************************************************)
C17_PollingIrreversible == [][C17_Step]_vars

\* every resolution action was taken once (the store read, the file read
\* and removed, the token claimed and saved, the policy loaded), and two
\* polls later none was taken again
C17_Witness ==
    /\ pc = "poll"
    /\ calls.getAccounts = 2
    /\ calls.export = 1
    /\ ResolutionCalls(calls) = <<1, 2, 1, 1, 1, 1, 1>>

\* a step in which the save to the store succeeds: the only steps that
\* change the secret
C18_Step ==
    /\ secret' # secret => (pc = "saveSecret" /\ saveErr' = "")
    /\ (pc = "saveSecret" /\ SecretConfigured /\ saveErr' = "") =>
          /\ secret.exists /\ secret'.exists
          /\ ~secret'.nilData
          /\ secret'.keys = secret.keys \cup {"access_url"}
          /\ secret'.data["access_url"] = newAccessUrl
          /\ \A k \in secret.keys \ {"access_url"} : secret'.data[k] = secret.data[k]
          /\ secret.nilData => secret'.keys = {"access_url"}

(***************************************************************************)
(* C18.  Persisting to the store changes only the access_url field: after  *)
(* a successful write every other field of the record has the value it     *)
(* had before, access_url has the exchanged URL, and a record that had no  *)
(* data map has one that holds access_url alone.  No other step changes    *)
(* the record.                                                             *)
(***************************************************************************)
C18_OnlyAccessUrlWritten == [][C18_Step]_vars

\* the record had the field other but no access_url; after the one Update
\* it has both, other as before
C18_Witness ==
    /\ calls.secretUpdate = 1
    /\ saveErr = ""
    /\ pc = "newClient"
    /\ secret = SecretWith({"access_url", "other"}, "https://a", "x")
    /\ storedAccessUrl = ""

\* the bodies an exchange may have saved and no store held at first
SavedBodies == {"https://a", "Forbidden"}

\* a later run, with the same store reference and setup token and no
\* volatile file, that has not written the store: the store holds url since
\* an earlier run exchanged the token and saved it
LaterRunWith(url) ==
    /\ run > 1
    /\ SecretConfigured
    /\ setupToken # ""
    /\ accessUrlVolatileFile = ""
    /\ SecretHolds(url)
    /\ calls.secretUpdate = 0

\* after the step the run has the URL of the store, has not posted to the
\* claim URL and has not written the store
ResolvedFromStore(url) ==
    /\ calls'.claimPost = 0
    /\ calls'.secretUpdate = 0
    /\ secret' = secret
    /\ pc' \in AfterFile => accessUrl' = url
    /\ pc' \in Resolved => client' = url

\* the case of a saved URL that the store read accepts
C19_StepAlways ==
    (LaterRunWith("https://a") /\ run' = run /\ pc' # "parseConfig")
        => ResolvedFromStore("https://a")

C19_StepWhenRead ==
    \A url \in SavedBodies :
        (LaterRunWith(url) /\ run' = run /\ storedAccessUrl' # "") =>
            /\ storedAccessUrl' = url
            /\ HasPrefix(url, "http://") \/ HasPrefix(url, "https://")
            /\ ResolvedFromStore(url)

(***************************************************************************)
(* C19.  As claimed: after a run in which the token exchange and the store *)
(* write succeeded, every later run with the same store reference and      *)
(* setup token (and no volatile file) resolves the same access URL from    *)
(* the store, posts nothing to the claim URL and does not write the store. *)
(***************************************************************************)
C19_ClaimOnceAlways == [][C19_StepAlways]_vars

(***************************************************************************)
(* C19, amended.  After such a run, every later run with the same store    *)
(* reference and setup token (and no volatile file) whose store read       *)
(* yields a value yields the saved URL, which starts with http:// or       *)
(* https://, resolves that URL, posts nothing to the claim URL and does    *)
(* not write the store.                                                    *)
(***************************************************************************)
C19_ClaimOnceWhenRead == [][C19_StepWhenRead]_vars

\* the second run polls with the URL the first run saved, the token unclaimed
C19_Witness ==
    /\ run = 2
    /\ LaterRunWith("https://a")
    /\ args.accessUrl = ""
    /\ storedAccessUrl = "https://a"
    /\ pc = "poll"
    /\ client = "https://a"
    /\ calls.claimPost = 0
    /\ calls.getAccounts > 0

\* the secret changes only to hold the body of the 200 response of this run
C20_Step ==
    secret' # secret =>
        /\ resp'.kind = "response" /\ resp'.status = StatusOK
        /\ secret'.data["access_url"] = resp'.body
        /\ calls'.secretUpdate = 1
        /\ calls'.claimPost = 1

\* in a run, at most one Update and one POST, the Update after a 200; no
\* Update in a run that has an access URL from the store, the file or the flag
C20_Once ==
    /\ calls.secretUpdate <= 1
    /\ calls.claimPost <= 1
    /\ calls.secretUpdate > 0 =>
          /\ Exchanged200
          /\ calls.claimPost = 1
          /\ newAccessUrl = resp.body
          /\ accessUrl = ""
    /\ (accessUrl # "" /\ pc \notin {"parseConfig", "volatileFile"}) =>
          calls.secretUpdate = 0

(***************************************************************************)
(* C20.  In a run the store is written at most once and the claim URL is   *)
(* posted to at most once; the store is written only after the token       *)
(* exchange of that run has answered 200, and with its body: an access URL *)
(* that came from the store, the volatile file or the explicit flag is     *)
(* never written to the store.                                             *)
(***************************************************************************)
C20_WriteOnlyAfterExchange == [][C20_Step]_vars /\ []C20_Once

\* polling after one POST and one Update, on a command line that also named
\* a volatile file (empty) and a store
C20_Witness ==
    /\ pc = "poll"
    /\ calls.claimPost = 1
    /\ calls.secretUpdate = 1
    /\ calls.fileRemove = 1
    /\ SecretHolds("https://a")
    /\ client = "https://a"
    /\ calls.getAccounts = 2

=============================================================================
